---- MODULE Spec2Model ----
(***************************************************************************)
(* Round lifecycle, settlement and reward claim of the drawgor game.       *)
(*                                                                         *)
(* The store (tables lobbies, players, system_config) and the chain are    *)
(* shared state. Scheduler and claim-reward invocations are stateless      *)
(* request handlers: each is a process whose steps are the handler's       *)
(* awaits, so that other invocations, joins and the clock interleave       *)
(* between two store or chain calls exactly where the code yields.         *)
(*                                                                         *)
(* Amounts are integers in units of 0.0001 GOR (the scale of the           *)
(* decimal(10,4) columns); chain amounts are lamports. Times are           *)
(* milliseconds. Row ids are the insertion index, which is also the        *)
(* created_at order. Wallet addresses are small naturals.                  *)
(*                                                                         *)
(* The two schedulers (lobby-scheduler and fight-dragon-scheduler) are the *)
(* same code over different tables; they differ in the set the winning     *)
(* number is drawn from. The model draws from the two-valued set and lets  *)
(* players pick from the same set, so every draw is either somebody's pick *)
(* or nobody's.                                                            *)
(***************************************************************************)
EXTENDS Integers, Sequences, FiniteSets, TLC

VARIABLES
    clock,        \* wall clock (ms), read by new Date()
    lobbies,      \* table lobbies: sequence of rows, id = index
    players,      \* table players: sequence of rows, id = index
    config,       \* table system_config: the single row
    balance,      \* lamports held by the central wallet on chain
    transfers,    \* transfers accepted by the chain; signature = index
    clientLobby,  \* browser state currentLobby (id, 0 for null)
    sched,        \* scheduler invocations: local variables of each handler run
    claim,        \* claim-reward invocations: local variables of each handler run
    budget,       \* scheduler invocations that may still start
    faults        \* whether the hosted store may answer a call with an error

vars == <<clock, lobbies, players, config, balance, transfers, clientLobby,
          sched, claim, budget, faults>>

----------------------------------------------------------------------------
(* Bounds of the model *)

MaxLobbies == 3
MaxPlayers == 1
MaxEntries == 5
MaxClaimEntries == 2
MaxTicks == 3
MaxInvocations == 4
MaxSettleInvocations == 3
MaxOutageEntries == 2
MaxOutageInvocations == 2
MaxEarlierTicks == 2

(* Program constants *)

StartDelayMs == 10000
DurationMs == 60000
CreateAheadMs == 15000
EntryFeeUnits == 1000
FeeRatePercent == 3
LamportsPerUnit == 100000
TransactionFeeLamports == 5000
KeyBytes == 64
PROCESSING == -1
NullHash == 0
NoResult == 0
NoLobby == 0

(* Inputs *)

TickSteps == {30000}
Wallets == {1, 2}
Picks == {1, 10}
Scheds == {1, 2}
Claims == {1, 2}
InitBalances == {0, 100000000, 1000000000}

OutcomeDomain == {1, 10}

----------------------------------------------------------------------------
(* Helpers *)

RECURSIVE SetToSeq(_)
SetToSeq(S) ==
    IF S = {} THEN <<>>
    ELSE LET m == CHOOSE x \in S : \A y \in S : x <= y
         IN <<m>> \o SetToSeq(S \ {m})

Horizon == MaxTicks * (CHOOSE d \in TickSteps : \A e \in TickSteps : e <= d)

LobbyIds == 1..Len(lobbies)
PlayerIds == 1..Len(players)

\* numeric(10,4) stores num/den rounded to the nearest unit, ties away from zero
ToDecimal4(num, den) == (2 * num + den) \div (2 * den)

TotalPrizePool(totalPlayers) == totalPlayers * EntryFeeUnits
PlatformFee(totalPlayers) == (TotalPrizePool(totalPlayers) * FeeRatePercent) \div 100
PrizePoolAfterFee(totalPlayers) == TotalPrizePool(totalPlayers) - PlatformFee(totalPlayers)
\* PrizePerWinner without the division among the winners
PrizeUndivided(totalPlayers, winnersCount) == PrizePoolAfterFee(totalPlayers)

PrizePerWinner(totalPlayers, winnersCount) ==
    IF winnersCount > 0 THEN ToDecimal4(PrizePoolAfterFee(totalPlayers), winnersCount) ELSE 0

----------------------------------------------------------------------------
(* Store queries and rows *)

\* ExpiredLobbies selecting on status waiting instead of active
ExpiredWaitingLobbies(now) ==
    SetToSeq({i \in LobbyIds : lobbies[i].status = "waiting" /\ lobbies[i].end_time < now})

\* ExpiredLobbies with limit 1: only the oldest active lobby past end time
FirstExpiredLobby(now) ==
    LET due == {i \in LobbyIds : lobbies[i].status = "active" /\ lobbies[i].end_time < now}
    IN IF due = {} THEN <<>> ELSE <<CHOOSE i \in due : \A j \in due : i <= j>>

\* ExpiredLobbies comparing with <= instead of <
ExpiredLobbiesInclusive(now) ==
    SetToSeq({i \in LobbyIds : lobbies[i].status = "active" /\ lobbies[i].end_time <= now})

ExpiredLobbies(now) ==
    SetToSeq({i \in LobbyIds : lobbies[i].status = "active" /\ lobbies[i].end_time < now})

\* WaitingLobbies with limit 1: only the oldest waiting lobby past start time
FirstWaitingLobby(now) ==
    LET due == {i \in LobbyIds : lobbies[i].status = "waiting" /\ lobbies[i].start_time < now}
    IN IF due = {} THEN <<>> ELSE <<CHOOSE i \in due : \A j \in due : i <= j>>

WaitingLobbies(now) ==
    SetToSeq({i \in LobbyIds : lobbies[i].status = "waiting" /\ lobbies[i].start_time < now})

PendingLobbies == {i \in LobbyIds : lobbies[i].status \in {"waiting", "active"}}

CurrentLobby ==
    IF PendingLobbies = {} THEN NoLobby
    ELSE CHOOSE i \in PendingLobbies : \A j \in PendingLobbies : j <= i

PlayersOf(lobby) == {p \in PlayerIds : players[p].lobby_id = lobby}

\* NewLobby starting at once, without the start delay
NewLobbyStartsNow(now) ==
    [start_time |-> now,
     end_time |-> now + DurationMs,
     status |-> "waiting",
     result_number |-> NoResult,
     total_players |-> 0,
     total_amount |-> 0]

NewLobby(now) ==
    [start_time |-> now + StartDelayMs,
     end_time |-> now + StartDelayMs + DurationMs,
     status |-> "waiting",
     result_number |-> NoResult,
     total_players |-> 0,
     total_amount |-> 0]

NewPlayer(lobby, wallet, number) ==
    [lobby_id |-> lobby,
     wallet_address |-> wallet,
     selected_number |-> number,
     is_winner |-> FALSE,
     prize_amount |-> 0,
     reward_claimed |-> FALSE,
     reward_transaction_hash |-> NullHash]

\* trigger_update_lobby_stats: AFTER INSERT ON players
UpdateLobbyStats(lbs, pls, lobby) ==
    LET n == Cardinality({p \in 1..Len(pls) : pls[p].lobby_id = lobby})
    IN [lbs EXCEPT ![lobby] = [@ EXCEPT !.total_players = n,
                                        !.total_amount = n * EntryFeeUnits]]

----------------------------------------------------------------------------
(* Scheduler invocation *)

SchedIdle ==
    [pc |-> "idle", now |-> 0, expired |-> <<>>, waiting |-> <<>>,
     winningNumber |-> NoResult, totalPlayers |-> 0, winnersCount |-> 0,
     winners |-> <<>>, result |-> "none"]

SchedReturn(s, res) == [sched EXCEPT ![s] = [SchedIdle EXCEPT !.result = res]]

\* AfterLobby leaving STEP 1 after the first lobby, whatever is left to settle
AfterFirstLobby(rest) == "selectWaiting"

AfterLobby(rest) == IF rest = <<>> THEN "selectWaiting" ELSE "fetchPlayers"

\* STEP 1: select active lobbies past end time
SchedSelectExpired(s) ==
    /\ sched[s].pc = "idle"
    /\ budget > 0
    /\ budget' = budget - 1
    /\ \/ sched' = [sched EXCEPT ![s] =
                      [SchedIdle EXCEPT !.pc = AfterLobby(ExpiredLobbies(clock)),
                                        !.now = clock,
                                        !.expired = ExpiredLobbies(clock),
                                        !.result = "running"]]
       \/ /\ faults
          /\ sched' = SchedReturn(s, "error")
    /\ UNCHANGED <<clock, lobbies, players, config, balance, transfers, clientLobby,
                   claim, faults>>

\* processCompletedLobby: draw the winning number, load the players, compute the prize
ProcFetchPlayers(s) ==
    /\ sched[s].pc = "fetchPlayers"
    /\ \E winningNumber \in OutcomeDomain :
         \/ LET lobby == Head(sched[s].expired)
                all == PlayersOf(lobby)
                winners == SetToSeq({p \in all : players[p].selected_number = winningNumber})
            IN sched' = [sched EXCEPT ![s] =
                           [@ EXCEPT !.pc = IF winners = <<>> THEN "complete" ELSE "updateWinner",
                                     !.winningNumber = winningNumber,
                                     !.totalPlayers = Cardinality(all),
                                     !.winnersCount = Len(winners),
                                     !.winners = winners]]
         \/ /\ faults
            /\ sched' = [sched EXCEPT ![s] = [@ EXCEPT !.pc = "fallback"]]
    /\ UNCHANGED <<clock, lobbies, players, config, balance, transfers, clientLobby,
                   claim, budget, faults>>

WinnerUpdate(row, prize) ==
    [row EXCEPT !.is_winner = TRUE, !.prize_amount = prize, !.reward_claimed = FALSE]

\* ProcUpdateWinner throwing the error of the update out of the handler
ProcUpdateWinnerAbort(s) ==
    /\ sched[s].pc = "updateWinner"
    /\ LET w == Head(sched[s].winners)
           rest == Tail(sched[s].winners)
           prize == PrizePerWinner(sched[s].totalPlayers, sched[s].winnersCount)
       IN \/ /\ players' = [players EXCEPT ![w] = WinnerUpdate(@, prize)]
             /\ sched' = [sched EXCEPT ![s] =
                            [@ EXCEPT !.winners = rest,
                                      !.pc = IF rest = <<>> THEN "complete" ELSE "updateWinner"]]
          \/ /\ faults
             /\ UNCHANGED players
             /\ sched' = SchedReturn(s, "error")
    /\ UNCHANGED <<clock, lobbies, config, balance, transfers, clientLobby, claim,
                   budget, faults>>

\* update one winner row; an error is logged and the loop goes on
ProcUpdateWinner(s) ==
    /\ sched[s].pc = "updateWinner"
    /\ LET w == Head(sched[s].winners)
           rest == Tail(sched[s].winners)
           prize == PrizePerWinner(sched[s].totalPlayers, sched[s].winnersCount)
       IN /\ \/ players' = [players EXCEPT ![w] = WinnerUpdate(@, prize)]
             \/ /\ faults
                /\ UNCHANGED players
          /\ sched' = [sched EXCEPT ![s] =
                         [@ EXCEPT !.winners = rest,
                                   !.pc = IF rest = <<>> THEN "complete" ELSE "updateWinner"]]
    /\ UNCHANGED <<clock, lobbies, config, balance, transfers, clientLobby, claim,
                   budget, faults>>

\* CompletedLobby writing zero totals whatever was loaded
CompletedLobbyZeroTotals(row, number, totalPlayers, totalAmount) ==
    [row EXCEPT !.status = "completed", !.result_number = number,
                !.total_players = 0, !.total_amount = 0]

CompletedLobby(row, number, totalPlayers, totalAmount) ==
    [row EXCEPT !.status = "completed", !.result_number = number,
                !.total_players = totalPlayers, !.total_amount = totalAmount]

SchedNextLobby(s, nextpc) ==
    [sched EXCEPT ![s] =
       [@ EXCEPT !.expired = Tail(@), !.pc = nextpc,
                 !.winningNumber = NoResult, !.totalPlayers = 0,
                 !.winnersCount = 0, !.winners = <<>>]]

\* update lobby to completed status
ProcComplete(s) ==
    /\ sched[s].pc = "complete"
    /\ LET lobby == Head(sched[s].expired)
       IN \/ /\ lobbies' = [lobbies EXCEPT ![lobby] =
                              CompletedLobby(@, sched[s].winningNumber, sched[s].totalPlayers,
                                             TotalPrizePool(sched[s].totalPlayers))]
             /\ sched' = SchedNextLobby(s, AfterLobby(Tail(sched[s].expired)))
          \/ /\ faults
             /\ sched' = [sched EXCEPT ![s] = [@ EXCEPT !.pc = "fallback"]]
             /\ UNCHANGED lobbies
    /\ UNCHANGED <<clock, players, config, balance, transfers, clientLobby, claim,
                   budget, faults>>

\* catch block: mark the lobby completed with a fallback number and zero totals;
\* the result of this write is not looked at
ProcFallback(s) ==
    /\ sched[s].pc = "fallback"
    /\ LET lobby == Head(sched[s].expired)
       IN /\ \/ \E number \in OutcomeDomain :
                  lobbies' = [lobbies EXCEPT ![lobby] = CompletedLobby(@, number, 0, 0)]
             \/ UNCHANGED lobbies
          /\ sched' = SchedNextLobby(s, AfterLobby(Tail(sched[s].expired)))
    /\ UNCHANGED <<clock, players, config, balance, transfers, clientLobby, claim,
                   budget, faults>>

\* STEP 2: select waiting lobbies past start time
SchedSelectWaiting(s) ==
    /\ sched[s].pc = "selectWaiting"
    /\ \/ LET w == WaitingLobbies(sched[s].now)
          IN sched' = [sched EXCEPT ![s] =
                         [@ EXCEPT !.waiting = w,
                                   !.pc = IF w = <<>> THEN "selectCurrent" ELSE "activate"]]
       \/ /\ faults
          /\ sched' = SchedReturn(s, "error")
    /\ UNCHANGED <<clock, lobbies, players, config, balance, transfers, clientLobby,
                   claim, budget, faults>>

\* activate one waiting lobby; an error is logged and the loop goes on
SchedActivate(s) ==
    /\ sched[s].pc = "activate"
    /\ LET lobby == Head(sched[s].waiting)
           rest == Tail(sched[s].waiting)
       IN /\ \/ lobbies' = [lobbies EXCEPT ![lobby] = [@ EXCEPT !.status = "active"]]
             \/ /\ faults
                /\ UNCHANGED lobbies
          /\ sched' = [sched EXCEPT ![s] =
                         [@ EXCEPT !.waiting = rest,
                                   !.pc = IF rest = <<>> THEN "selectCurrent" ELSE "activate"]]
    /\ UNCHANGED <<clock, players, config, balance, transfers, clientLobby, claim,
                   budget, faults>>

\* ShouldCreateLobby without the case of no current lobby
ShouldCreateOnlyWhenEnding(current, now) ==
    /\ current # NoLobby
    /\ lobbies[current].end_time - now < CreateAheadMs

ShouldCreateLobby(current, now) ==
    \/ current = NoLobby
    \/ /\ current # NoLobby
       /\ lobbies[current].end_time - now < CreateAheadMs

\* STEP 3: fetch the current lobby and decide whether a new one is needed
SchedSelectCurrent(s) ==
    /\ sched[s].pc = "selectCurrent"
    /\ \/ IF ShouldCreateLobby(CurrentLobby, sched[s].now)
          THEN sched' = [sched EXCEPT ![s] = [@ EXCEPT !.pc = "create"]]
          ELSE sched' = SchedReturn(s, "success")
       \/ /\ faults
          /\ sched' = SchedReturn(s, "error")
    /\ UNCHANGED <<clock, lobbies, players, config, balance, transfers, clientLobby,
                   claim, budget, faults>>

\* createNewLobby
SchedCreate(s) ==
    /\ sched[s].pc = "create"
    /\ Len(lobbies) < MaxLobbies
    /\ \/ /\ lobbies' = Append(lobbies, NewLobby(clock))
          /\ sched' = SchedReturn(s, "success")
       \/ /\ faults
          /\ sched' = SchedReturn(s, "error")
          /\ UNCHANGED lobbies
    /\ UNCHANGED <<clock, players, config, balance, transfers, clientLobby, claim,
                   budget, faults>>

SchedStep(s) ==
    \/ SchedSelectExpired(s)
    \/ ProcFetchPlayers(s)
    \/ ProcUpdateWinner(s)
    \/ ProcComplete(s)
    \/ ProcFallback(s)
    \/ SchedSelectWaiting(s)
    \/ SchedActivate(s)
    \/ SchedSelectCurrent(s)
    \/ SchedCreate(s)

----------------------------------------------------------------------------
(* Clock and browser client *)

Tick ==
    /\ \E d \in TickSteps : /\ clock + d <= Horizon
                            /\ clock' = clock + d
    /\ UNCHANGED <<lobbies, players, config, balance, transfers, clientLobby, sched,
                   claim, budget, faults>>

\* useGameState.fetchCurrentLobby
FetchCurrentLobby ==
    /\ clientLobby' = CurrentLobby
    /\ UNCHANGED <<clock, lobbies, players, config, balance, transfers, sched, claim,
                   budget, faults>>

\* useGameState.joinLobby, called by GameBoard.handleSubmitNumber
JoinLobby ==
    /\ clientLobby # NoLobby
    /\ Len(players) < MaxPlayers
    /\ \E wallet \in Wallets, number \in Picks :
         /\ \A p \in PlayersOf(clientLobby) : players[p].wallet_address # wallet
         /\ players' = Append(players, NewPlayer(clientLobby, wallet, number))
         /\ lobbies' = UpdateLobbyStats(lobbies, players', clientLobby)
    /\ UNCHANGED <<clock, config, balance, transfers, clientLobby, sched, claim,
                   budget, faults>>

----------------------------------------------------------------------------
(* Claim-reward invocation *)

TreasuryAddress == 9

\* system_config rows: the address, and what the private key text decodes to
\* (its byte length and the address of the keypair made from it)
GoodConfig ==
    [central_wallet_address |-> TreasuryAddress,
     central_wallet_private_key |-> [bytes |-> KeyBytes, address |-> TreasuryAddress]]
NoKey == [bytes |-> 0, address |-> 0]
Configs ==
    {GoodConfig,
     [GoodConfig EXCEPT !.central_wallet_address = 0],
     [GoodConfig EXCEPT !.central_wallet_private_key = NoKey],
     [GoodConfig EXCEPT !.central_wallet_private_key = [bytes |-> 32, address |-> TreasuryAddress]],
     [GoodConfig EXCEPT !.central_wallet_private_key = [bytes |-> KeyBytes, address |-> 8]]}

ClaimIdle ==
    [pc |-> "idle", player_id |-> 0, wallet_address |-> 0, prize_amount |-> 0,
     error |-> "none", result |-> "none", signature |-> NullHash, cited |-> NullHash,
     marked |-> FALSE, locked |-> FALSE, after |-> {}]

ClaimReturn(c, res) ==
    [claim EXCEPT ![c] = [@ EXCEPT !.pc = "done", !.result = res]]

\* update ... where id = pid and reward_claimed = false; the number of rows the
\* update changed is not looked at
\* MarkClaimed without the filter on id: every unclaimed row is marked
MarkClaimedEveryRow(pls, pid) ==
    [p \in 1..Len(pls) |->
        IF pls[p].reward_claimed = FALSE
        THEN [pls[p] EXCEPT !.reward_claimed = TRUE, !.reward_transaction_hash = PROCESSING]
        ELSE pls[p]]

MarkClaimed(pls, pid) ==
    IF pls[pid].reward_claimed = FALSE
    THEN [pls EXCEPT ![pid] = [@ EXCEPT !.reward_claimed = TRUE,
                                        !.reward_transaction_hash = PROCESSING]]
    ELSE pls

\* Validate without the check of reward_claimed
ValidateSkipClaimed(row, wallet) ==
    IF row.wallet_address # wallet THEN "Forbidden"
    ELSE IF ~row.is_winner THEN "NotEligible"
    ELSE IF row.prize_amount <= 0 THEN "InvalidAmount"
    ELSE "ok"

\* the checks of the fetched player row, in the order of the code
Validate(row, wallet) ==
    IF row.wallet_address # wallet THEN "Forbidden"
    ELSE IF ~row.is_winner THEN "NotEligible"
    ELSE IF row.reward_claimed THEN "AlreadyClaimed"
    ELSE IF row.prize_amount <= 0 THEN "InvalidAmount"
    ELSE "ok"

\* ClaimFetchPlayer marking the row claimed before it validates the request
ClaimFetchPlayerMarkFirst(c) ==
    /\ claim[c].pc = "idle"
    /\ \E pid \in PlayerIds, wallet \in Wallets :
         LET started == [claim[c] EXCEPT !.player_id = pid, !.wallet_address = wallet,
                                         !.after = {d \in Claims : claim[d].pc = "done"}]
         IN /\ players' = MarkClaimed(players, pid)
            /\ IF Validate(players[pid], wallet) # "ok"
               THEN claim' = [claim EXCEPT ![c] =
                                [started EXCEPT !.pc = "done",
                                                !.result = Validate(players[pid], wallet),
                                                !.cited = players[pid].reward_transaction_hash]]
               ELSE claim' = [claim EXCEPT ![c] =
                                [started EXCEPT !.pc = "config",
                                                !.prize_amount = players[pid].prize_amount]]
    /\ UNCHANGED <<clock, lobbies, config, balance, transfers, clientLobby,
                   sched, budget, faults>>

\* 1. fetch the player row and validate the request
ClaimFetchPlayer(c) ==
    /\ claim[c].pc = "idle"
    /\ \E pid \in 1..(Len(players) + 1), wallet \in Wallets :
         LET started == [claim[c] EXCEPT !.player_id = pid, !.wallet_address = wallet,
                                         !.after = {d \in Claims : claim[d].pc = "done"}]
         IN \/ /\ faults
               /\ claim' = [claim EXCEPT ![c] =
                              [started EXCEPT !.pc = "done", !.result = "StoreError"]]
            \/ /\ pid \notin PlayerIds
               /\ claim' = [claim EXCEPT ![c] =
                              [started EXCEPT !.pc = "done", !.result = "NotFound"]]
            \/ /\ pid \in PlayerIds
               /\ Validate(players[pid], wallet) # "ok"
               /\ claim' = [claim EXCEPT ![c] =
                              [started EXCEPT !.pc = "done",
                                              !.result = Validate(players[pid], wallet),
                                              !.cited = players[pid].reward_transaction_hash]]
            \/ /\ pid \in PlayerIds
               /\ Validate(players[pid], wallet) = "ok"
               /\ claim' = [claim EXCEPT ![c] =
                              [started EXCEPT !.pc = "config",
                                              !.prize_amount = players[pid].prize_amount]]
    /\ UNCHANGED <<clock, lobbies, players, config, balance, transfers, clientLobby,
                   sched, budget, faults>>

ConfigPresent(cfg) ==
    /\ cfg.central_wallet_address # 0
    /\ cfg.central_wallet_private_key # NoKey

\* 2. fetch the central wallet configuration
ClaimFetchConfig(c) ==
    /\ claim[c].pc = "config"
    /\ \/ /\ faults
          /\ claim' = ClaimReturn(c, "StoreError")
       \/ /\ ~ConfigPresent(config)
          /\ claim' = ClaimReturn(c, "ConfigurationError")
       \/ /\ ConfigPresent(config)
          /\ claim' = [claim EXCEPT ![c] = [@ EXCEPT !.pc = "mark"]]
    /\ UNCHANGED <<clock, lobbies, players, config, balance, transfers, clientLobby,
                   sched, budget, faults>>

\* 3. mark the reward as claimed before the transfer
ClaimMarkClaimed(c) ==
    /\ claim[c].pc = "mark"
    /\ \/ /\ faults
          /\ claim' = ClaimReturn(c, "StoreError")
          /\ UNCHANGED players
       \/ /\ players' = MarkClaimed(players, claim[c].player_id)
          /\ claim' = [claim EXCEPT ![c] =
                         [@ EXCEPT !.pc = "chain", !.marked = TRUE,
                                   !.locked = ~players[claim[c].player_id].reward_claimed]]
    /\ UNCHANGED <<clock, lobbies, config, balance, transfers, clientLobby, sched,
                   budget, faults>>

Lamports(prize) == prize * LamportsPerUnit

ClaimFail(c, err) ==
    [claim EXCEPT ![c] = [@ EXCEPT !.pc = "rollback", !.error = err]]

\* what the code finds wrong with the private key, if anything
KeyError(cfg) ==
    IF cfg.central_wallet_private_key.bytes # KeyBytes THEN "InvalidKey"
    ELSE IF cfg.central_wallet_private_key.address # cfg.central_wallet_address
         THEN "KeyMismatch"
    ELSE "ok"

\* 4a. connect, decode the private key, check the central wallet balance
ClaimCheckBalance(c) ==
    /\ claim[c].pc = "chain"
    /\ \/ claim' = ClaimFail(c, "ChainError")
       \/ /\ KeyError(config) # "ok"
          /\ claim' = ClaimFail(c, KeyError(config))
       \/ /\ KeyError(config) = "ok"
          /\ balance < Lamports(claim[c].prize_amount) + TransactionFeeLamports
          /\ claim' = ClaimFail(c, "InsufficientFunds")
       \/ /\ KeyError(config) = "ok"
          /\ balance >= Lamports(claim[c].prize_amount) + TransactionFeeLamports
          /\ claim' = [claim EXCEPT ![c] = [@ EXCEPT !.pc = "send"]]
    /\ UNCHANGED <<clock, lobbies, players, config, balance, transfers, clientLobby,
                   sched, budget, faults>>

\* 4b. get a blockhash, sign and send the transfer; the chain accepts it when the
\* central wallet can pay it
ClaimSend(c) ==
    /\ claim[c].pc = "send"
    /\ \/ /\ claim' = ClaimFail(c, "ChainError")
          /\ UNCHANGED <<balance, transfers>>
       \/ /\ balance >= Lamports(claim[c].prize_amount) + TransactionFeeLamports
          /\ transfers' = Append(transfers,
                                 [to |-> claim[c].wallet_address,
                                  lamports |-> Lamports(claim[c].prize_amount),
                                  player_id |-> claim[c].player_id,
                                  by |-> c])
          /\ balance' = balance - Lamports(claim[c].prize_amount) - TransactionFeeLamports
          /\ claim' = [claim EXCEPT ![c] =
                         [@ EXCEPT !.pc = "store", !.signature = Len(transfers) + 1]]
    /\ UNCHANGED <<clock, lobbies, players, config, clientLobby, sched, budget, faults>>

\* 5. replace PROCESSING by the signature; a failure of this write is only logged
ClaimStoreHash(c) ==
    /\ claim[c].pc = "store"
    /\ \/ players' = [players EXCEPT ![claim[c].player_id] =
                        [@ EXCEPT !.reward_transaction_hash = claim[c].signature]]
       \/ /\ faults
          /\ UNCHANGED players
    /\ claim' = ClaimReturn(c, "success")
    /\ UNCHANGED <<clock, lobbies, config, balance, transfers, clientLobby, sched,
                   budget, faults>>

\* RolledBack leaving the transaction hash in place
RolledBackKeepHash(pls, pid) ==
    [pls EXCEPT ![pid] = [@ EXCEPT !.reward_claimed = FALSE]]

RolledBack(pls, pid) ==
    [pls EXCEPT ![pid] = [@ EXCEPT !.reward_claimed = FALSE,
                                   !.reward_transaction_hash = NullHash]]

\* catch (blockchainError): roll the claim mark back, then rethrow
ClaimRollback(c) ==
    /\ claim[c].pc = "rollback"
    /\ \/ /\ players' = RolledBack(players, claim[c].player_id)
          /\ claim' = ClaimReturn(c, claim[c].error)
       \/ /\ faults
          /\ UNCHANGED players
          /\ claim' = ClaimReturn(c, "RollbackFailed")
    /\ UNCHANGED <<clock, lobbies, config, balance, transfers, clientLobby, sched,
                   budget, faults>>

ClaimStep(c) ==
    \/ ClaimFetchPlayer(c)
    \/ ClaimFetchConfig(c)
    \/ ClaimMarkClaimed(c)
    \/ ClaimCheckBalance(c)
    \/ ClaimSend(c)
    \/ ClaimStoreHash(c)
    \/ ClaimRollback(c)

----------------------------------------------------------------------------
(* Specifications *)

\* Scheduler invocations (possibly overlapping), the clock and joining players,
\* from the empty store.
Init ==
    /\ clock = 0
    /\ lobbies = <<>>
    /\ players = <<>>
    /\ config = GoodConfig
    /\ balance = 0
    /\ transfers = <<>>
    /\ clientLobby = NoLobby
    /\ sched = [s \in Scheds |-> SchedIdle]
    /\ claim = [c \in Claims |-> ClaimIdle]
    /\ budget = MaxInvocations
    /\ faults = TRUE

Next ==
    \/ Tick
    \/ FetchCurrentLobby
    \/ JoinLobby
    \/ \E s \in Scheds : SchedStep(s)

Spec == Init /\ [][Next]_vars

\* rows of n players of lobby 1, the first k of which picked 1 and the others 10
Entrants(n, k) ==
    [i \in 1..n |-> NewPlayer(1, i, IF i <= k THEN 1 ELSE 10)]

\* One scheduler at a time against a store that answers every call, from a
\* waiting lobby that up to MaxEntries players have joined.
InitSettle ==
    /\ clock = 0
    /\ \E n \in 0..MaxEntries, k \in 0..MaxEntries :
         /\ k <= n
         /\ players = Entrants(n, k)
         /\ lobbies = UpdateLobbyStats(<<NewLobby(0)>>, players, 1)
    /\ config = GoodConfig
    /\ balance = 0
    /\ transfers = <<>>
    /\ clientLobby = NoLobby
    /\ sched = [s \in Scheds |-> SchedIdle]
    /\ claim = [c \in Claims |-> ClaimIdle]
    /\ budget = MaxSettleInvocations
    /\ faults = FALSE

NextSettle ==
    \/ Tick
    \/ SchedSelectExpired(1)
    \/ ProcFetchPlayers(1)
    \/ ProcUpdateWinner(1)
    \/ ProcComplete(1)
    \/ SchedSelectWaiting(1)
    \/ SchedActivate(1)
    \/ SchedSelectCurrent(1)
    \/ SchedCreate(1)

SpecSettle == InitSettle /\ [][NextSettle]_vars

\* the rows of a lobby after its settlement drew `number`
SettledPlayers(pls, number) ==
    LET winnersCount == Cardinality({p \in 1..Len(pls) : pls[p].selected_number = number})
    IN [p \in 1..Len(pls) |->
          IF pls[p].selected_number = number
          THEN WinnerUpdate(pls[p], PrizePerWinner(Len(pls), winnersCount))
          ELSE pls[p]]

\* Claim-reward invocations (possibly overlapping) on the players of one
\* completed lobby.
InitClaim ==
    /\ clock = Horizon
    /\ \E n \in 1..MaxClaimEntries, k \in 0..MaxClaimEntries, number \in OutcomeDomain :
         /\ k <= n
         /\ players = SettledPlayers(Entrants(n, k), number)
         /\ lobbies = <<CompletedLobby(NewLobby(0),
                                       number, n, TotalPrizePool(n))>>
    /\ config \in Configs
    /\ balance \in InitBalances
    /\ transfers = <<>>
    /\ clientLobby = NoLobby
    /\ sched = [s \in Scheds |-> SchedIdle]
    /\ claim = [c \in Claims |-> ClaimIdle]
    /\ budget = 0
    /\ faults = TRUE

NextClaim == \E c \in Claims : ClaimStep(c)

SpecClaim == InitClaim /\ [][NextClaim]_vars

\* the instants the clock can show
Instants == {t \in 0..Horizon : \E k \in 0..MaxTicks, d \in TickSteps : t = k * d}

\* a lobby row created at `created`, in each status a row can have
LobbyRows ==
    {NewLobby(created) : created \in Instants}
    \cup {[NewLobby(created) EXCEPT !.status = "active"] : created \in Instants}
    \cup {CompletedLobby(NewLobby(created), number, 0, 0) :
              created \in Instants, number \in OutcomeDomain}

\* STEP 2 of one invocation, run and run again with the same now, on any table of
\* up to MaxLobbies lobbies and a store that answers every call.
InitActivate ==
    /\ clock \in Instants
    /\ \E n \in 0..MaxLobbies : lobbies \in [1..n -> LobbyRows]
    /\ players = <<>>
    /\ config = GoodConfig
    /\ balance = 0
    /\ transfers = <<>>
    /\ clientLobby = NoLobby
    /\ sched = [s \in Scheds |->
                  IF s = 1 THEN [SchedIdle EXCEPT !.pc = "selectWaiting", !.now = clock,
                                                  !.result = "running"]
                  ELSE SchedIdle]
    /\ claim = [c \in Claims |-> ClaimIdle]
    /\ budget = 0
    /\ faults = FALSE

\* STEP 2 is entered a second time with the now of the first time
ActivateAgain ==
    /\ sched[1].pc = "selectCurrent"
    /\ sched[1].result = "running"
    /\ sched' = [sched EXCEPT ![1] = [@ EXCEPT !.pc = "selectWaiting", !.result = "again"]]
    /\ UNCHANGED <<clock, lobbies, players, config, balance, transfers, clientLobby,
                   claim, budget, faults>>

NextActivate ==
    \/ SchedSelectWaiting(1)
    \/ SchedActivate(1)
    \/ ActivateAgain

SpecActivate == InitActivate /\ [][NextActivate]_vars

\* GameBoard's interval timer fires: one more scheduler invocation may start
AutoTrigger ==
    /\ budget = 0
    /\ budget' = 1
    /\ UNCHANGED <<clock, lobbies, players, config, balance, transfers, clientLobby,
                   sched, claim, faults>>

\* the store's errors are transient: from some point on it answers every call
StoreRecovers ==
    /\ faults
    /\ faults' = FALSE
    /\ UNCHANGED <<clock, lobbies, players, config, balance, transfers, clientLobby,
                   sched, claim, budget>>

\* The scheduler invoked again and again by the timer, one invocation at a time,
\* while time advances, players join and the store fails for a while.
InitLive ==
    /\ clock = 0
    /\ lobbies = <<>>
    /\ players = <<>>
    /\ config = GoodConfig
    /\ balance = 0
    /\ transfers = <<>>
    /\ clientLobby = NoLobby
    /\ sched = [s \in Scheds |-> SchedIdle]
    /\ claim = [c \in Claims |-> ClaimIdle]
    /\ budget = 0
    /\ faults = TRUE

NextLive ==
    \/ Tick
    \/ AutoTrigger
    \/ StoreRecovers
    \/ FetchCurrentLobby
    \/ JoinLobby
    \/ SchedStep(1)

SpecLive ==
    /\ InitLive
    /\ [][NextLive]_vars
    /\ WF_vars(Tick)
    /\ WF_vars(AutoTrigger)
    /\ WF_vars(StoreRecovers)
    /\ WF_vars(SchedStep(1))

\* One scheduler at a time, from a waiting lobby that up to MaxEntries players
\* have joined, against a store that may answer any call with an error.
InitSettleFaulty ==
    /\ clock = 0
    /\ \E n \in 0..MaxEntries, k \in 0..MaxEntries :
         /\ k <= n
         /\ players = Entrants(n, k)
         /\ lobbies = UpdateLobbyStats(<<NewLobby(0)>>, players, 1)
    /\ config = GoodConfig
    /\ balance = 0
    /\ transfers = <<>>
    /\ clientLobby = NoLobby
    /\ sched = [s \in Scheds |-> SchedIdle]
    /\ claim = [c \in Claims |-> ClaimIdle]
    /\ budget = MaxSettleInvocations
    /\ faults = TRUE

NextSettleFaulty ==
    \/ Tick
    \/ SchedStep(1)

SpecSettleFaulty == InitSettleFaulty /\ [][NextSettleFaulty]_vars

\* instants at which a lobby can have been created: the instants of the clock and
\* those that put a start time or an end time exactly on one of them
CreationInstants ==
    Instants
    \cup {t - StartDelayMs : t \in {u \in Instants : u >= StartDelayMs}}
    \cup {t - StartDelayMs - DurationMs :
              t \in {u \in Instants : u >= StartDelayMs + DurationMs}}

\* the rows a lobby created at `created` can be at instant `now`: waiting at any
\* time, active once an invocation later than its start time has run, completed
\* once an invocation later than its end time has run
LobbyRowsAt(now) ==
    {NewLobby(created) : created \in CreationInstants}
    \cup {[NewLobby(created) EXCEPT !.status = "active"] :
              created \in {c \in CreationInstants : c + StartDelayMs < now}}
    \cup {CompletedLobby(NewLobby(created), number, 0, 0) :
              created \in {c \in CreationInstants : c + StartDelayMs + DurationMs < now},
              number \in OutcomeDomain}

\* The scheduler invoked after an outage of any length: any table of up to
\* MaxLobbies lobbies in creation order, the oldest joined by up to
\* MaxOutageEntries players if it is not yet completed; one invocation at a time
\* against a store that answers every call.
InitOutage ==
    /\ clock \in Instants
    /\ \E n \in 0..MaxLobbies, rows \in [1..MaxLobbies -> LobbyRowsAt(clock)],
          e \in 0..MaxOutageEntries, k \in 0..MaxOutageEntries :
         /\ \A i \in 1..(MaxLobbies - 1) : rows[i].start_time <= rows[i + 1].start_time
         /\ \A i \in (n + 1)..MaxLobbies : rows[i] = rows[1]
         /\ k <= e
         /\ e > 0 => n > 0 /\ rows[1].status # "completed"
         /\ players = Entrants(e, k)
         /\ lobbies = IF e > 0
                         THEN UpdateLobbyStats([i \in 1..n |-> rows[i]], players, 1)
                         ELSE [i \in 1..n |-> rows[i]]
    /\ config = GoodConfig
    /\ balance = 0
    /\ transfers = <<>>
    /\ clientLobby = NoLobby
    /\ sched = [s \in Scheds |-> SchedIdle]
    /\ claim = [c \in Claims |-> ClaimIdle]
    /\ budget = MaxOutageInvocations
    /\ faults = FALSE

NextOutage ==
    \/ Tick
    \/ SchedSelectExpired(1)
    \/ ProcFetchPlayers(1)
    \/ ProcUpdateWinner(1)
    \/ ProcComplete(1)
    \/ SchedSelectWaiting(1)
    \/ SchedActivate(1)
    \/ SchedSelectCurrent(1)
    \/ SchedCreate(1)

SpecOutage == InitOutage /\ [][NextOutage]_vars

\* the instants, not later than the origin of the clock, at which the lobby the
\* store holds at the origin can have been created
EarlierInstants == {0 - k * d : k \in 0..MaxEarlierTicks, d \in TickSteps}

\* The scheduler invoked one invocation at a time against a store that answers
\* every call, from the origin of the clock on: the store is empty, or holds one
\* lobby created earlier, waiting or (if an invocation later than its start time
\* can have run) active, joined by up to MaxOutageEntries players.
InitSequence ==
    /\ clock = 0
    /\ \/ /\ lobbies = <<>>
          /\ players = <<>>
       \/ \E created \in EarlierInstants, status \in {"waiting", "active"},
             e \in 0..MaxOutageEntries, k \in 0..MaxOutageEntries :
            /\ status = "active" => created + StartDelayMs < clock
            /\ k <= e
            /\ players = Entrants(e, k)
            /\ lobbies = UpdateLobbyStats(<<[NewLobby(created) EXCEPT !.status = status]>>,
                                          players, 1)
    /\ config = GoodConfig
    /\ balance = 0
    /\ transfers = <<>>
    /\ clientLobby = NoLobby
    /\ sched = [s \in Scheds |-> SchedIdle]
    /\ claim = [c \in Claims |-> ClaimIdle]
    /\ budget = MaxInvocations
    /\ faults = FALSE

NextSequence ==
    \/ Tick
    \/ SchedSelectExpired(1)
    \/ ProcFetchPlayers(1)
    \/ ProcUpdateWinner(1)
    \/ ProcComplete(1)
    \/ SchedSelectWaiting(1)
    \/ SchedActivate(1)
    \/ SchedSelectCurrent(1)
    \/ SchedCreate(1)

SpecSequence == InitSequence /\ [][NextSequence]_vars

----------------------------------------------------------------------------
(* Properties *)

TransfersOf(p) == {i \in 1..Len(transfers) : transfers[i].player_id = p}

RECURSIVE SumPrizes(_)
SumPrizes(S) ==
    IF S = {} THEN 0
    ELSE LET p == CHOOSE x \in S : TRUE
         IN players[p].prize_amount + SumPrizes(S \ {p})

WinnersOf(lobby) == {p \in PlayersOf(lobby) : players[p].is_winner}

Returns(c) == claim[c].pc # "done" /\ claim'[c].pc = "done"

ValidationErrors == {"NotFound", "Forbidden", "NotEligible", "AlreadyClaimed", "InvalidAmount"}

\* C1: no interleaving of claim calls yields two transfers for the same Entry
\* (of two concurrent calls for a winning Entry only one submits a transfer).
C1_AtMostOneTransferPerEntry ==
    \A p \in PlayerIds : Cardinality(TransfersOf(p)) <= 1

\* C2: in every reachable state at most one Round has status waiting or active.
C2_AtMostOnePendingRound ==
    Cardinality(PendingLobbies) <= 1

C4_CompletedRoundNotRewritten ==
    [][\A l \in LobbyIds :
         (lobbies[l].status = "completed" /\ (\E s \in Scheds : sched'[s] # sched[s]))
         => /\ lobbies'[l] = lobbies[l]
            /\ \A p \in PlayersOf(l) : players'[p] = players[p]]_vars

\* C5: a Round carries an outcome if and only if its status is completed.
C5_OutcomeIffCompleted ==
    \A l \in LobbyIds :
        (lobbies[l].result_number # NoResult) <=> (lobbies[l].status = "completed")

\* C6: for every completed Round the prizes of its winners sum to at most
\* total_stake * (1 - fee rate), and to exactly that when it divides evenly
\* among the winners.
C6_PrizeSumWithinPool ==
    \A l \in LobbyIds :
        lobbies[l].status = "completed" =>
            LET distributable == (lobbies[l].total_amount * (100 - FeeRatePercent)) \div 100
                winners == WinnersOf(l)
            IN /\ SumPrizes(winners) <= distributable
               /\ (winners # {} /\ distributable % Cardinality(winners) = 0)
                    => SumPrizes(winners) = distributable

\* C7: reward_claimed is never false again once a transfer for the Entry was
\* submitted, and it goes from true to false only in the rollback of the call
\* that set it, a call that made no transfer.
C7_ClaimedResetOnlyByOwnRollback ==
    [][\A p \in PlayerIds :
         (players[p].reward_claimed /\ ~players'[p].reward_claimed)
         => /\ TransfersOf(p) = {}
            /\ \E c \in Claims : /\ claim[c].pc = "rollback"
                                  /\ claim'[c].pc = "done"
                                  /\ claim[c].player_id = p
                                  /\ claim[c].locked]_vars

\* the second of two calls made one after the other by the same claimant for the
\* same Entry, the first of which returned success
InSequence(c1, c2) ==
    /\ c1 # c2
    /\ claim[c2].pc = "done"
    /\ c1 \in claim[c2].after
    /\ claim[c1].result = "success"
    /\ claim[c2].player_id = claim[c1].player_id
    /\ claim[c2].wallet_address = claim[c1].wallet_address
    /\ claim[c2].result # "StoreError"

C9_ValidationFailureChangesNothing ==
    [][\A c \in Claims :
         (Returns(c) /\ claim'[c].result \in ValidationErrors)
         => /\ claim[c].pc = "idle"
            /\ UNCHANGED <<players, lobbies, transfers, balance>>]_vars

\* a call was refused as already claimed while the call that marked the Entry
\* had not yet sent its transfer
C9_Witness ==
    \E c, d \in Claims :
        /\ claim[c].pc = "done"
        /\ claim[c].result = "AlreadyClaimed"
        /\ claim[d].pc = "send"
        /\ claim[d].player_id = claim[c].player_id
        /\ transfers = <<>>

\* C10: a call that fails on the central wallet's address or private key (absent,
\* malformed, or of another address) has not executed the mark-claimed write.
C10_ConfigFailureBeforeMark ==
    \A c \in Claims :
        (\/ claim[c].result = "ConfigurationError"
         \/ claim[c].error \in {"InvalidKey", "KeyMismatch"})
        => ~claim[c].marked

\* the Entries of a lobby that picked its drawn number
MatchingOf(lobby) ==
    {p \in PlayersOf(lobby) : players[p].selected_number = lobbies[lobby].result_number}

\* what the Entries of a lobby stake less the platform fee
DistributableOf(lobby) ==
    (Cardinality(PlayersOf(lobby)) * EntryFeeUnits * (100 - FeeRatePercent)) \div 100

\* C11 as stated: after a settlement without store errors the winners are exactly
\* the Entries that picked the outcome, each holds exactly the distributable
\* amount divided by the number of winners and is unclaimed, and every other
\* Entry is no winner with prize 0.
C11_WinnersHoldExactShare ==
    \A l \in LobbyIds :
        lobbies[l].status = "completed" =>
            \A p \in PlayersOf(l) :
                IF p \in MatchingOf(l)
                THEN /\ players[p].is_winner
                     /\ ~players[p].reward_claimed
                     /\ players[p].prize_amount * Cardinality(MatchingOf(l)) = DistributableOf(l)
                ELSE /\ ~players[p].is_winner
                     /\ players[p].prize_amount = 0

\* C11 amended: the same, each winner holding the distributable amount divided by
\* the number of winners rounded to the nearest 0.0001 (so at most half a unit
\* per winner away from the exact share, above or below).
C11_WinnersHoldRoundedShare ==
    \A l \in LobbyIds :
        lobbies[l].status = "completed" =>
            \A p \in PlayersOf(l) :
                IF p \in MatchingOf(l)
                THEN LET w == Cardinality(MatchingOf(l))
                         diff == players[p].prize_amount * w - DistributableOf(l)
                     IN /\ players[p].is_winner
                        /\ ~players[p].reward_claimed
                        /\ 2 * diff <= w
                        /\ 2 * diff > -w
                ELSE /\ ~players[p].is_winner
                     /\ players[p].prize_amount = 0

\* a lobby settled with winners whose share is no whole number of units, and losers
C11_Witness ==
    \E l \in LobbyIds :
        /\ lobbies[l].status = "completed"
        /\ Cardinality(MatchingOf(l)) >= 2
        /\ MatchingOf(l) # PlayersOf(l)
        /\ DistributableOf(l) % Cardinality(MatchingOf(l)) # 0
        /\ \A p \in MatchingOf(l) : players[p].is_winner

\* C12: a lobby settled with no Entry, or with no Entry on the drawn number, is
\* completed with an outcome of the domain, total_players the number of its
\* Entries and total_amount that number of entry fees, and its Entries are as
\* they were inserted.
C12_NoWinnerSettlementTouchesNoEntry ==
    \A l \in LobbyIds :
        (lobbies[l].status = "completed" /\ MatchingOf(l) = {}) =>
            /\ lobbies[l].result_number \in OutcomeDomain
            /\ lobbies[l].total_players = Cardinality(PlayersOf(l))
            /\ lobbies[l].total_amount = Cardinality(PlayersOf(l)) * EntryFeeUnits
            /\ \A p \in PlayersOf(l) :
                  players[p] = NewPlayer(l, players[p].wallet_address,
                                         players[p].selected_number)

\* a lobby with Entries was settled on a number none of them picked
C12_Witness ==
    \E l \in LobbyIds :
        /\ lobbies[l].status = "completed"
        /\ PlayersOf(l) # {}
        /\ MatchingOf(l) = {}

\* C13: the second run of the activation step, with the same now and nothing in
\* between, changes no lobby: the store after two runs is the store after one.
C13_SecondActivationChangesNothing ==
    [][sched[1].result = "again" => lobbies' = lobbies]_vars

\* both runs are over, the first found two lobbies to activate and the second none
C13_Witness ==
    /\ sched[1].result = "again"
    /\ sched[1].pc = "selectCurrent"
    /\ Cardinality({l \in LobbyIds : /\ lobbies[l].status = "active"
                                      /\ lobbies[l].start_time < sched[1].now}) >= 2
    /\ WaitingLobbies(sched[1].now) = <<>>

\* C14: under repeated scheduler invocations with advancing time, every lobby
\* that is created and whose end time the clock can pass is eventually completed,
\* also when steps of its settlement fail.
C14_EveryRoundEventuallyCompleted ==
    \A l \in 1..MaxLobbies :
        (l \in LobbyIds /\ lobbies[l].end_time < Horizon)
            ~> (l \in LobbyIds /\ lobbies[l].status = "completed")

\* a lobby with an Entry was completed by the fallback after its settlement failed
C14_Witness ==
    \E l \in LobbyIds :
        /\ lobbies[l].status = "completed"
        /\ lobbies[l].total_players = 0
        /\ PlayersOf(l) # {}

\* the transfers a claim call submitted
TransfersBy(c) == {i \in 1..Len(transfers) : transfers[i].by = c}

\* C15: a step of a claim call changes no lobby and no Entry other than the one
\* named in its request, and a call that returns success has submitted exactly
\* one transfer.
C15_ClaimTouchesOnlyItsEntry ==
    [][\A c \in Claims :
         claim'[c] # claim[c] =>
            /\ lobbies' = lobbies
            /\ Len(players') = Len(players)
            /\ \A p \in PlayerIds :
                  p # claim'[c].player_id => players'[p] = players[p]
            /\ (Returns(c) /\ claim'[c].result = "success")
                  => Cardinality({i \in 1..Len(transfers') : transfers'[i].by = c}) = 1]_vars

\* a call was paid for one Entry while another winning Entry stayed unclaimed
C15_Witness ==
    \E c \in Claims, p \in PlayerIds :
        /\ claim[c].pc = "done"
        /\ claim[c].result = "success"
        /\ Cardinality(TransfersBy(c)) = 1
        /\ p # claim[c].player_id
        /\ players[p].is_winner
        /\ ~players[p].reward_claimed
        /\ players[p].reward_transaction_hash = NullHash

\* C16: a call whose rollback write fails after a payout failure returns an error
\* other than the payout error, has made no transfer, and leaves the Entry with
\* reward_claimed = true.
C16_FailedRollbackLeavesEntryClaimed ==
    [][\A c \in Claims :
         (Returns(c) /\ claim'[c].result = "RollbackFailed")
         => /\ claim'[c].result # claim[c].error
            /\ TransfersBy(c) = {}
            /\ players'[claim[c].player_id].reward_claimed]_vars

\* a step of the settlement that invocation s is finishing has failed: it is in
\* the catch block, or an Entry on the drawn number was not written as a winner
SettlementFailed(s) ==
    \/ sched[s].pc = "fallback"
    \/ /\ sched[s].pc = "complete"
       /\ \E p \in PlayersOf(Head(sched[s].expired)) :
             /\ players[p].selected_number = sched[s].winningNumber
             /\ ~players[p].is_winner

\* C17: when a step of settling a lobby has failed, the invocation leaves the
\* lobby completed, with an outcome of the domain and zero total_players and
\* total_amount.
C17_FailedSettlementForceCompletes ==
    [][\A s \in Scheds :
         (/\ sched[s].pc \in {"complete", "fallback"}
          /\ sched'[s].expired = Tail(sched[s].expired)
          /\ SettlementFailed(s))
         => LET l == Head(sched[s].expired)
            IN /\ lobbies'[l].status = "completed"
               /\ lobbies'[l].result_number \in OutcomeDomain
               /\ lobbies'[l].total_players = 0
               /\ lobbies'[l].total_amount = 0]_vars

\* the place of a status in the order waiting, active, completed
StatusRank(status) ==
    CASE status = "waiting" -> 1
      [] status = "active" -> 2
      [] status = "completed" -> 3

\* C18: the status of a lobby only moves forward along waiting, active,
\* completed, and never from waiting straight to completed.
C18_StatusOnlyMovesForward ==
    [][\A l \in LobbyIds :
         /\ StatusRank(lobbies'[l].status) >= StatusRank(lobbies[l].status)
         /\ ~(lobbies[l].status = "waiting" /\ lobbies'[l].status = "completed")]_vars

\* C19: once the lobby of an Entry is completed, is_winner and prize_amount of the
\* Entry never change again, whoever takes the step.
C19_WinnerFieldsFrozenAfterSettlement ==
    [][\A p \in PlayerIds :
         lobbies[players[p].lobby_id].status = "completed"
         => /\ players'[p].is_winner = players[p].is_winner
            /\ players'[p].prize_amount = players[p].prize_amount]_vars

\* C20 as stated: no sub-step of an invocation (fetching the expired lobbies,
\* settling one, fetching or activating the waiting ones, fetching the current
\* one) ends the invocation with an error.
C20_SubStepErrorNeverAborts ==
    [][\A s \in Scheds :
         (/\ sched'[s] # sched[s]
          /\ sched[s].pc \in {"idle", "fetchPlayers", "updateWinner", "complete",
                               "fallback", "selectWaiting", "activate", "selectCurrent"})
         => sched'[s].result # "error"]_vars

\* C20 amended: a step that settles one lobby or activates one lobby never ends
\* the invocation, whether its store call fails or not: the invocation goes on
\* with the lobbies it still has to settle and activate.
C20_PerLobbyErrorNeverAborts ==
    [][\A s \in Scheds :
         (/\ sched'[s] # sched[s]
          /\ sched[s].pc \in {"fetchPlayers", "updateWinner", "complete", "fallback",
                               "activate"})
         => /\ sched'[s].result = "running"
            /\ sched'[s].pc # "idle"
            /\ IF sched[s].pc = "activate"
               THEN /\ sched'[s].waiting = Tail(sched[s].waiting)
                    /\ sched'[s].expired = sched[s].expired
               ELSE /\ sched'[s].expired \in {sched[s].expired, Tail(sched[s].expired)}
                    /\ sched'[s].waiting = sched[s].waiting]_vars

\* the update of a winner failed and the invocation went on to complete the lobby
C20_Witness ==
    \E s \in Scheds :
        /\ sched[s].pc = "complete"
        /\ sched[s].result = "running"
        /\ sched[s].winnersCount > 0
        /\ \A p \in PlayersOf(Head(sched[s].expired)) : ~players[p].is_winner

\* no lobby is waiting or active, or the one of them created last ends less than
\* CreateAheadMs after `now`
NeedsRound(now) ==
    LET pending == {l \in LobbyIds : lobbies[l].status \in {"waiting", "active"}}
    IN \/ pending = {}
       \/ \E l \in pending : /\ \A m \in pending : m <= l
                               /\ lobbies[l].end_time - now < CreateAheadMs

\* C21: an invocation goes on to create a lobby if and only if none is waiting or
\* active or the latest of them ends less than 15 s after its now; it then
\* inserts exactly one lobby and returns; the table grows by no other step; the
\* new lobby is waiting, starts 10 s after the instant of its creation, ends 60 s
\* after its start, and has zero totals and no outcome.
C21_CreatesOneRoundWhenNeeded ==
    [][\A s \in Scheds :
         /\ (sched[s].pc = "selectCurrent" /\ sched'[s] # sched[s])
               => /\ (sched'[s].pc = "create") <=> NeedsRound(sched[s].now)
                  /\ sched'[s].pc \in {"create", "idle"}
                  /\ lobbies' = lobbies
         /\ (sched[s].pc = "create" /\ sched'[s] # sched[s])
               => /\ sched'[s].pc = "idle"
                  /\ Len(lobbies') = Len(lobbies) + 1
                  /\ \A l \in LobbyIds : lobbies'[l] = lobbies[l]
                  /\ LET new == lobbies'[Len(lobbies')]
                     IN /\ new.status = "waiting"
                        /\ new.start_time = clock + StartDelayMs
                        /\ new.end_time = new.start_time + DurationMs
                        /\ new.end_time > new.start_time
                        /\ new.total_players = 0
                        /\ new.total_amount = 0
                        /\ new.result_number = NoResult
         /\ (sched[s].pc # "create" /\ sched'[s] # sched[s])
               => Len(lobbies') = Len(lobbies)]_vars

\* a lobby was created while the one before it was still active
C21_Witness ==
    \E l, m \in LobbyIds :
        /\ l < m
        /\ lobbies[l].status = "active"
        /\ lobbies[m].status = "waiting"
        /\ lobbies[m].start_time > lobbies[l].start_time

\* the scheduler is inside STEP 1, working on the lobbies it selected
InStepOne(s) == sched[s].pc \in {"fetchPlayers", "updateWinner", "complete", "fallback"}

\* the lobbies a sequence of ids holds
Range(seq) == {seq[i] : i \in 1..Len(seq)}

\* C22: an invocation selects every lobby that is active and past its end time
\* at its now, however many; it takes the selected lobbies off its list one at a
\* time, each one completed when it is taken off; and it leaves STEP 1 only when
\* the list is empty.
C22_OneInvocationSettlesAllExpired ==
    [][\A s \in Scheds :
         /\ (sched[s].pc = "idle" /\ sched'[s].result = "running")
               => /\ Range(sched'[s].expired) =
                        {l \in LobbyIds : lobbies[l].status = "active"
                                            /\ lobbies[l].end_time < sched'[s].now}
                  /\ Len(sched'[s].expired) = Cardinality(Range(sched'[s].expired))
         /\ (InStepOne(s) /\ sched'[s].expired # sched[s].expired)
               => /\ sched'[s].expired = Tail(sched[s].expired)
                  /\ lobbies'[Head(sched[s].expired)].status = "completed"
         /\ (InStepOne(s) /\ sched'[s].pc # sched[s].pc /\ ~InStepOne(s)')
               => /\ sched'[s].pc = "selectWaiting"
                  /\ sched'[s].expired = <<>>
                  /\ \A l \in LobbyIds :
                        (lobbies[l].end_time < sched[s].now /\ lobbies'[l].status # "waiting")
                            => lobbies'[l].status = "completed"]_vars

\* STEP 1 of one invocation is over, and two lobbies that were both past their
\* end time at its now are completed
C22_Witness ==
    \E s \in Scheds, l, m \in LobbyIds :
        /\ sched[s].pc = "selectWaiting"
        /\ budget = MaxOutageInvocations - 1
        /\ l # m
        /\ lobbies[l].status = "completed" /\ lobbies[l].end_time < sched[s].now
        /\ lobbies[m].status = "completed" /\ lobbies[m].end_time < sched[s].now
        /\ lobbies[l].total_players > 0

\* C23: a lobby becomes active only in a step of an invocation whose now is
\* later than the lobby's start time, and completed only in a step of an
\* invocation whose now is later than its end time; an invocation selects no
\* lobby whose end time, or start time, is its now.
C23_StrictlyAfterStartAndEnd ==
    [][/\ \A l \in LobbyIds :
            /\ (lobbies[l].status # "active" /\ lobbies'[l].status = "active")
                  => \E s \in Scheds : /\ sched[s].pc = "activate"
                                        /\ sched'[s] # sched[s]
                                        /\ sched[s].now > lobbies[l].start_time
            /\ (lobbies[l].status # "completed" /\ lobbies'[l].status = "completed")
                  => \E s \in Scheds : /\ sched[s].pc \in {"complete", "fallback"}
                                        /\ sched'[s] # sched[s]
                                        /\ sched[s].now > lobbies[l].end_time
       /\ \A s \in Scheds, l \in LobbyIds :
            /\ (sched'[s].expired # sched[s].expired /\ lobbies[l].end_time >= sched'[s].now)
                  => \A i \in 1..Len(sched'[s].expired) : sched'[s].expired[i] # l
            /\ (sched'[s].waiting # sched[s].waiting /\ lobbies[l].start_time >= sched'[s].now)
                  => \A i \in 1..Len(sched'[s].waiting) : sched'[s].waiting[i] # l]_vars

\* an invocation has settled a lobby and is past STEP 1 and STEP 2, and a lobby
\* whose end time is its now is still active
C23_Witness ==
    \E s \in Scheds, l, m \in LobbyIds :
        /\ sched[s].pc \in {"selectCurrent", "create"}
        /\ lobbies[l].status = "active"
        /\ lobbies[l].end_time = sched[s].now
        /\ lobbies[m].status = "completed"
        /\ lobbies[m].total_players > 0

\* C24: in every state, an entry of a completed lobby is a winner exactly when
\* its selected number is the lobby's stored result number.
C24_WinnersMatchStoredOutcome ==
    \A p \in PlayerIds :
        lobbies[players[p].lobby_id].status = "completed"
        => (players[p].is_winner
              <=> players[p].selected_number = lobbies[players[p].lobby_id].result_number)

\* C25: in every state, every entry that is a winner belongs to a lobby whose
\* status is completed.
C25_WinnersOnlyInCompletedRounds ==
    \A p \in PlayerIds :
        players[p].is_winner => lobbies[players[p].lobby_id].status = "completed"

\* C26: in every state, an entry is unclaimed exactly when its transaction hash
\* is null.
C26_UnclaimedIffNoReference ==
    \A p \in PlayerIds :
        (~players[p].reward_claimed) <=> (players[p].reward_transaction_hash = NullHash)

\* C27: whenever an entry is inserted, the lobby it is inserted into is waiting
\* or active at that moment.
C27_NoJoinIntoCompletedRound ==
    [][Len(players') > Len(players)
         => lobbies[players'[Len(players')].lobby_id].status \in {"waiting", "active"}]_vars

\* C28: in every state, at most two lobbies are waiting or active.
C28_AtMostTwoPendingRounds == Cardinality(PendingLobbies) <= 2

\* a third lobby was created, and two lobbies are waiting or active
C28_Witness ==
    /\ Len(lobbies) >= 3
    /\ Cardinality(PendingLobbies) = 2

\* the lobbies of a table that are active and past their end time at `now`
ActiveExpired(table, now) ==
    {l \in 1..Len(table) : table[l].status = "active" /\ table[l].end_time < now}

\* C29 as stated: when an invocation returns success, no lobby is active with
\* an end time earlier than the invocation's now.
C29_NoActiveExpiredAtEnd ==
    [][\A s \in Scheds :
         (sched[s].result = "running" /\ sched'[s].result = "success")
         => ActiveExpired(lobbies', sched[s].now) = {}]_vars

\* C29, amended: when an invocation leaves STEP 1, no lobby is active with an end
\* time earlier than its now; from then until it returns, a lobby comes to be
\* active with an end time earlier than its now only by being activated in
\* STEP 2, from waiting.
C29_NoActiveExpiredAfterStepOne ==
    [][\A s \in Scheds :
         /\ (sched[s].pc # "selectWaiting" /\ sched'[s].pc = "selectWaiting")
               => ActiveExpired(lobbies', sched'[s].now) = {}
         /\ (sched[s].pc \in {"selectWaiting", "activate", "selectCurrent", "create"})
               => \A l \in ActiveExpired(lobbies', sched[s].now) :
                    \/ l \in ActiveExpired(lobbies, sched[s].now)
                    \/ /\ sched[s].pc = "activate"
                       /\ l = Head(sched[s].waiting)
                       /\ lobbies[l].status = "waiting"]_vars

\* an invocation has settled a lobby in STEP 1 and is past STEP 2, and a lobby is
\* active with an end time earlier than its now
C29_Witness ==
    \E s \in Scheds, m \in LobbyIds :
        /\ sched[s].pc \in {"selectCurrent", "create"}
        /\ budget = MaxOutageInvocations - 1
        /\ ActiveExpired(lobbies, sched[s].now) # {}
        /\ lobbies[m].status = "completed"
        /\ lobbies[m].total_players > 0

\* C30: when an invocation returns success, at least one lobby is waiting or
\* active.
C30_SuccessLeavesPendingRound ==
    [][\A s \in Scheds :
         (sched[s].result = "running" /\ sched'[s].result = "success")
         => \E l \in 1..Len(lobbies') : lobbies'[l].status \in {"waiting", "active"}]_vars

\* an invocation has returned success after a lobby was completed, and a lobby
\* created since is waiting or active
C30_Witness ==
    \E s \in Scheds, l, m \in LobbyIds :
        /\ sched[s].pc = "idle"
        /\ sched[s].result = "success"
        /\ l < m
        /\ lobbies[l].status = "completed"
        /\ lobbies[m].status \in {"waiting", "active"}

====
